---------------------------- MODULE Spec2Model ----------------------------
(***************************************************************************)
(* Model of kt's "topic" command (src/topic.go): topicCmd.run lists the    *)
(* cluster's topics, filters them, starts the output serializer and one    *)
(* worker goroutine per topic; every worker builds its topic record with   *)
(* readTopic and hands it to the serializer over the unbuffered channel    *)
(* out, then waits for the per-submission done channel.                    *)
(*                                                                         *)
(* The serializer (the free function print(in, pretty)) and the type       *)
(* printContext are defined outside topic.go and common.go; the Ser*       *)
(* definitions below follow the design description of the output           *)
(* serializer (specification, section 4.2).                                *)
(***************************************************************************)
EXTENDS Integers, Sequences, FiniteSets, TLC

\* ------------------------------------------------------------------ bounds
NumTopics == 2      \* topic names the cluster knows: 1..NumTopics
MaxPartitions == 2  \* longest partition list the cluster reports for a topic
MaxKeyLen == 3      \* longest message key drawn from HashAlphabet
MaxCount == 5       \* partition counts handed to the hasher: -MaxCount..MaxCount

Names == 1..NumTopics

\* Partition id lists the cluster may report for a topic: none, or the ids
\* MaxPartitions-1, ..., 0 in that (not ascending) order.
PartLists ==
    {<<>>, [i \in 1..MaxPartitions |-> MaxPartitions - i]}

\* What the cluster answers to a successful metadata call.
OldestOffsets == {3}
NewestOffsets == {7}
LeaderAddrs == {"b1:9092"}
ReplicaLists == {<<1, 2>>}

\* Regular expressions of -filter, each given by the set of names it matches.
Filters == {Names, Names \ {1}, {}}

VARIABLES
    \* topicCmd fields (src/topic.go:26-37)
    partitions, leaders, replicas, filter,
    \* the cluster behind cmd.client
    clusterParts,
    \* topicCmd.run
    runPc,        \* position of run
    topics,       \* run's local slice topics
    next,         \* index of the range loop over topics
    wg,           \* sync.WaitGroup counter
    outClosed,    \* whether channel out has been closed
    clientClosed, \* whether the deferred cmd.client.Close() has run
    exitStatus,   \* -1 while the process runs, else the status of os.Exit
    \* one worker goroutine per topic name (closure at topic.go:160-163)
    pc, ps, idx, np, top, calls,
    \* printContext.done of each worker's submission
    done,
    \* the output serializer goroutine
    serPc, cur,
    serStarted,   \* number of serializer goroutines run has started
    \* the output sink (stdout) and the diagnostic stream (stderr)
    sink, sinkWriters, inFlight, stderr,
    \* history: order in which readTopic returned without error, and for each
    \* topic the submissions the serializer had accepted by that moment
    completed, acceptedBefore, accepted,
    \* the partition hasher (src/common.go:70-104): a key, a partition count
    \* and the values hashCode, kafkaAbs and hashCodePartition return for them
    hkey, hn, hhc, habs, hres, hpc

runVars == <<runPc, topics, next, wg, outClosed, clientClosed, exitStatus>>
cfgVars == <<partitions, leaders, replicas, filter, clusterParts>>
readVars == <<ps, idx, np, top, calls>>
serVars == <<serPc, cur, serStarted>>
outVars == <<sink, sinkWriters, inFlight>>
histVars == <<completed, acceptedBefore, accepted>>
hashVars == <<hkey, hn, hhc, habs, hres, hpc>>
pipeVars == <<cfgVars, runVars, pc, readVars, done, serVars, outVars, stderr, histVars>>
vars == <<pipeVars, hashVars>>

\* ------------------------------------------------------------- data types
\* topic{Name: name} (topic.go:189): Partitions is the nil slice.
NewTopic(name) == [Name |-> name, Partitions |-> <<>>]

\* partition{Id: p} (topic.go:201): every other field has its zero value.
NewPartition(p) ==
    [Id |-> p, OldestOffset |-> 0, NewestOffset |-> 0,
     Leader |-> "", Replicas |-> <<>>, ISRs |-> <<>>]

NoField == [x \in {} |-> 0]

\* JSON object of a partition: the struct tags of topic.go:44-51; the fields
\* tagged omitempty are left out when empty.
EncodePartition(p) ==
    [id |-> p.Id, oldest |-> p.OldestOffset, newest |-> p.NewestOffset]
    @@ (IF p.Leader # "" THEN [leader |-> p.Leader] ELSE NoField)
    @@ (IF Len(p.Replicas) > 0 THEN [replicas |-> p.Replicas] ELSE NoField)
    @@ (IF Len(p.ISRs) > 0 THEN [isrs |-> p.ISRs] ELSE NoField)

\* JSON object of a topic: the struct tags of topic.go:39-42; "partitions"
\* is tagged omitempty and is left out when the slice is empty.
Encode(t) ==
    IF Len(t.Partitions) > 0
    THEN [name |-> t.Name,
          partitions |-> [i \in 1..Len(t.Partitions) |-> EncodePartition(t.Partitions[i])]]
    ELSE [name |-> t.Name]

\* The goroutines that may hold the sink: the serializer and topic t's worker.
Serializer == <<"serializer", 0>>
WorkerOf(t) == <<"worker", t>>

\* The topics[] slice built at topic.go:148-153.
FilterTopics(all, re) == SelectSeq(all, LAMBDA a : a \in re)

\* -------------------------------------------------------- partition hasher
\* int32 limits.
MinInt32 == -2147483647 - 1

\* The int32 value with the 16-bit halves hi and lo (two's complement).
Int32Of(hi, lo) ==
    IF hi >= 32768 THEN (hi - 65536) * 65536 + lo ELSE hi * 65536 + lo

\* hc*31 + r in int32 arithmetic, wrapping around on overflow
\* (common.go:79, 81), computed on 16-bit halves.
Add32Mul31(hc, r) ==
    LET lo == hc % 65536
        hi == (hc \div 65536) % 65536
        l2 == lo * 31 + r
        h2 == (hi * 31 + (l2 \div 65536)) % 65536
    IN  Int32Of(h2, l2 % 65536)

\* utf16.EncodeRune(r) (common.go:77): the surrogate pair of a code point
\* in U+10000..U+10FFFF, and (U+FFFD, U+FFFD) for any other rune.
EncodeRune(r) ==
    IF r >= 65536 /\ r <= 1114111
    THEN <<55296 + ((r - 65536) \div 1024), 56320 + ((r - 65536) % 1024)>>
    ELSE <<65533, 65533>>

\* HashRune with the code point itself accumulated for every rune.
HashRune_CodePoint(hc, r) == Add32Mul31(hc, r)

\* The body of the loop of hashCode for the rune r (common.go:77-82).
HashRune(hc, r) ==
    LET e == EncodeRune(r) IN
    IF e[1] = 65533 /\ e[1] = e[2]
    THEN Add32Mul31(hc, r)
    ELSE Add32Mul31(Add32Mul31(hc, e[1]), e[2])

\* hashCode (common.go:75-85) over the runes that "range s" yields, from the
\* running value hc.
RECURSIVE HashFrom(_, _)
HashFrom(s, hc) ==
    IF s = <<>> THEN hc ELSE HashFrom(Tail(s), HashRune(hc, Head(s)))

hashCode(s) == HashFrom(s, 0)

\* i * -1 in int32 arithmetic (common.go:92).
Neg32(i) == IF i = MinInt32 THEN MinInt32 ELSE -i

\* kafkaAbs without the case of Integer.MIN_VALUE.
kafkaAbs_Plain(i) == IF i < 0 THEN Neg32(i) ELSE i

\* kafkaAbs (common.go:87-96).
kafkaAbs(i) ==
    CASE i = MinInt32 -> 0
      [] i < 0        -> Neg32(i)
      [] OTHER        -> i

\* Go's a % b for b > 0: the remainder has the sign of a.
GoRem(a, b) ==
    LET m == a % b IN IF a < 0 /\ m # 0 THEN m - b ELSE m

\* hashCodePartition without kafkaAbs.
hashCodePartition_NoAbs(key, n) ==
    IF n <= 0 THEN -1 ELSE GoRem(hashCode(key), n)

\* hashCodePartition with the test partitions <= 1.
hashCodePartition_OffByOne(key, n) ==
    IF n <= 1 THEN -1 ELSE GoRem(kafkaAbs(hashCode(key)), n)

\* hashCodePartition (common.go:98-104).
hashCodePartition(key, n) ==
    IF n <= 0 THEN -1 ELSE GoRem(kafkaAbs(hashCode(key)), n)

\* Runes of the keys: 'a', U+FFFD, U+FFFF, U+10000, U+1F600, U+10FFFF.
HashAlphabet == {97, 65533, 65535, 65536, 128512, 1114111}

\* "GydZG_", a key whose hash is the minimum int32.
MinHashKey == <<71, 121, 100, 90, 71, 95>>

\* The keys handed to the hasher, as the rune sequences "range s" yields.
HashKeys ==
    UNION {[1..k -> HashAlphabet] : k \in 0..MaxKeyLen} \cup {MinHashKey}

\* The partition counts handed to the hasher.
PartitionCounts == (-MaxCount)..MaxCount

\* The hasher is not in use.
HashIdle ==
    /\ hkey = <<>>
    /\ hn = 0
    /\ hhc = 0
    /\ habs = 0
    /\ hres = 0
    /\ hpc = "off"

\* ------------------------------------------------------------------- Init
Init ==
    /\ partitions \in BOOLEAN
    /\ leaders \in BOOLEAN
    /\ replicas \in BOOLEAN
    /\ filter \in Filters
    /\ clusterParts \in [Names -> PartLists]
    /\ runPc = "topics"
    /\ topics = <<>>
    /\ next = 1
    /\ wg = 0
    /\ outClosed = FALSE
    /\ clientClosed = FALSE
    /\ exitStatus = -1
    /\ pc = [t \in Names |-> "idle"]
    /\ ps = [t \in Names |-> <<>>]
    /\ idx = [t \in Names |-> 0]
    /\ np = [t \in Names |-> NewPartition(0)]
    /\ top = [t \in Names |-> NewTopic(t)]
    /\ calls = [t \in Names |-> <<>>]
    /\ done = [t \in Names |-> "none"]
    /\ serPc = "off"
    /\ cur = <<>>
    /\ serStarted = 0
    /\ sink = <<>>
    /\ sinkWriters = {}
    /\ inFlight = {}
    /\ stderr = <<>>
    /\ completed = <<>>
    /\ acceptedBefore = [t \in Names |-> {}]
    /\ accepted = <<>>
    /\ HashIdle

\* -------------------------------------------------------------------- run
\* cmd.client.Topics() succeeds (topic.go:144) and the filter loop
\* (topic.go:148-153) builds topics.
ListTopics ==
    /\ runPc = "topics"
    /\ topics' = FilterTopics([i \in 1..NumTopics |-> i], filter)
    /\ runPc' = "goprint"
    /\ UNCHANGED <<hashVars, cfgVars, next, wg, outClosed, clientClosed, exitStatus, pc,
                   readVars, done, serVars, outVars, stderr, histVars>>

\* failf without os.Exit: the caller goes on.
failf_NoExit(msg) ==
    /\ stderr' = Append(stderr, msg)
    /\ exitStatus' = exitStatus
    /\ runPc' = "goprint"

\* failf (common.go:51-54): message on stderr, os.Exit(1); deferred calls
\* do not run.
failf(msg) ==
    /\ stderr' = Append(stderr, msg)
    /\ exitStatus' = 1
    /\ runPc' = "exited"

\* cmd.client.Topics() fails (topic.go:144-146).
ListTopicsFail ==
    /\ runPc = "topics"
    /\ failf(<<"failed to read topics">>)
    /\ UNCHANGED <<hashVars, cfgVars, topics, next, wg, outClosed, clientClosed, pc,
                   readVars, done, serVars, outVars, histVars>>

\* StartSerializer without the go statement: no serializer is started.
StartSerializer_Missing ==
    /\ runPc = "goprint"
    /\ runPc' = "dispatch"
    /\ UNCHANGED <<hashVars, cfgVars, topics, next, wg, outClosed, clientClosed, exitStatus,
                   pc, readVars, done, serVars, outVars, stderr, histVars>>

\* go print(out, cmd.pretty) (topic.go:155).
StartSerializer ==
    /\ runPc = "goprint"
    /\ serPc' = "recv"
    /\ serStarted' = serStarted + 1
    /\ runPc' = "dispatch"
    /\ UNCHANGED <<hashVars, cfgVars, topics, next, wg, outClosed, clientClosed, exitStatus,
                   pc, readVars, done, cur, outVars, stderr, histVars>>

\* One iteration of the loop at topic.go:158-164: wg.Add(1) and go func(tn).
Dispatch ==
    /\ runPc = "dispatch"
    /\ next <= Len(topics)
    /\ wg' = wg + 1
    /\ pc' = [pc EXCEPT ![topics[next]] = "read"]
    /\ next' = next + 1
    /\ UNCHANGED <<hashVars, cfgVars, runPc, topics, outClosed, clientClosed, exitStatus,
                   readVars, done, serVars, outVars, stderr, histVars>>

\* The range loop is exhausted; run reaches wg.Wait() (topic.go:165).
EndDispatch ==
    /\ runPc = "dispatch"
    /\ next > Len(topics)
    /\ runPc' = "wait"
    /\ UNCHANGED <<hashVars, cfgVars, topics, next, wg, outClosed, clientClosed, exitStatus,
                   pc, readVars, done, serVars, outVars, stderr, histVars>>

\* WaitReturn without wg.Wait(): run returns right after the dispatch loop.
WaitReturn_NoWait ==
    /\ runPc = "wait"
    /\ runPc' = "returned"
    /\ clientClosed' = TRUE
    /\ UNCHANGED <<hashVars, cfgVars, topics, next, wg, outClosed, exitStatus,
                   pc, readVars, done, serVars, outVars, stderr, histVars>>

\* WaitReturn with close(out) after wg.Wait().
WaitReturn_Close ==
    /\ runPc = "wait"
    /\ wg = 0
    /\ runPc' = "returned"
    /\ clientClosed' = TRUE
    /\ outClosed' = TRUE
    /\ UNCHANGED <<hashVars, cfgVars, topics, next, wg, exitStatus,
                   pc, readVars, done, serVars, outVars, stderr, histVars>>

\* wg.Wait() returns when the counter is zero; run returns and the deferred
\* cmd.client.Close() runs (topic.go:142, 165-166).  out is not closed.
WaitReturn ==
    /\ runPc = "wait"
    /\ wg = 0
    /\ runPc' = "returned"
    /\ clientClosed' = TRUE
    /\ UNCHANGED <<hashVars, cfgVars, topics, next, wg, outClosed, exitStatus,
                   pc, readVars, done, serVars, outVars, stderr, histVars>>

\* ------------------------------------------------------- worker: readTopic
\* The cluster-client call a worker at position p of readTopic issues next.
CallOf(t) ==
    CASE pc[t] = "read"     -> <<"Partitions", -1>>
      [] pc[t] = "oldest"   -> <<"GetOffsetOldest", np[t].Id>>
      [] pc[t] = "newest"   -> <<"GetOffsetNewest", np[t].Id>>
      [] pc[t] = "leader"   -> <<"Leader", np[t].Id>>
      [] pc[t] = "replicas" -> <<"Replicas", np[t].Id>>
      [] pc[t] = "isrs"     -> <<"InSyncReplicas", np[t].Id>>

\* NextStage with the replica calls made before the leader call.
NextStage_ReplicasFirst(after) ==
    CASE after = "oldest"   -> "newest"
      [] after = "newest"   -> IF replicas THEN "replicas"
                               ELSE IF leaders THEN "leader" ELSE "append"
      [] after = "replicas" -> "isrs"
      [] after = "isrs"     -> IF leaders THEN "leader" ELSE "append"
      [] after = "leader"   -> "append"

\* NextStage with the leader fetched whatever cmd.leaders is.
NextStage_AlwaysLeader(after) ==
    CASE after = "oldest"   -> "newest"
      [] after = "newest"   -> "leader"
      [] after = "leader"   -> IF replicas THEN "replicas" ELSE "append"
      [] after = "replicas" -> "isrs"
      [] after = "isrs"     -> "append"

\* The statement of the loop body (topic.go:203-228) that follows the call
\* made at position after.
NextStage(after) ==
    CASE after = "oldest"   -> "newest"
      [] after = "newest"   -> IF leaders THEN "leader"
                               ELSE IF replicas THEN "replicas" ELSE "append"
      [] after = "leader"   -> IF replicas THEN "replicas" ELSE "append"
      [] after = "replicas" -> "isrs"
      [] after = "isrs"     -> "append"

\* readTopic returns (topv, nil) to print (topic.go:193, 231, 174): the
\* worker's retrieval is complete and it goes on to the submission.
ReturnTopic(t, topv) ==
    /\ pc' = [pc EXCEPT ![t] = "send"]
    /\ top' = [top EXCEPT ![t] = topv]
    /\ completed' = Append(completed, t)
    /\ acceptedBefore' = [acceptedBefore EXCEPT ![t] = {accepted[i] : i \in DOMAIN accepted}]
    /\ UNCHANGED accepted

\* Control after a successful call at position pc[t] that left the partition
\* under construction as npv: the next call of the same partition, or
\* top.Partitions = append(top.Partitions, np) (topic.go:228) followed by
\* the next partition or the return (topic.go:200, 231).
Proceed(t, npv) ==
    LET nxt == NextStage(pc[t]) IN
    IF nxt # "append"
    THEN /\ pc' = [pc EXCEPT ![t] = nxt]
         /\ np' = [np EXCEPT ![t] = npv]
         /\ UNCHANGED <<idx, top, histVars>>
    ELSE LET topv == [top[t] EXCEPT !.Partitions = Append(@, npv)] IN
         IF idx[t] < Len(ps[t])
         THEN /\ pc' = [pc EXCEPT ![t] = "oldest"]
              /\ idx' = [idx EXCEPT ![t] = idx[t] + 1]
              /\ np' = [np EXCEPT ![t] = NewPartition(ps[t][idx[t] + 1])]
              /\ top' = [top EXCEPT ![t] = topv]
              /\ UNCHANGED histVars
         ELSE /\ np' = [np EXCEPT ![t] = npv]
              /\ UNCHANGED idx
              /\ ReturnTopic(t, topv)

\* !cmd.partitions: readTopic returns the bare record without any call
\* (topic.go:189-194).
ReadBare(t) ==
    /\ pc[t] = "read"
    /\ ~partitions
    /\ ReturnTopic(t, NewTopic(t))
    /\ UNCHANGED <<hashVars, cfgVars, runVars, ps, idx, np, calls, done, serVars, outVars, stderr>>

\* cmd.client.Partitions(name) succeeds (topic.go:196) and the range loop
\* over ps starts (topic.go:200-201) or, with no partition, readTopic returns.
CallPartitions(t) ==
    /\ pc[t] = "read"
    /\ partitions
    /\ calls' = [calls EXCEPT ![t] = Append(@, CallOf(t))]
    /\ ps' = [ps EXCEPT ![t] = clusterParts[t]]
    /\ IF Len(clusterParts[t]) = 0
       THEN /\ ReturnTopic(t, NewTopic(t))
            /\ UNCHANGED <<idx, np>>
       ELSE /\ pc' = [pc EXCEPT ![t] = "oldest"]
            /\ idx' = [idx EXCEPT ![t] = 1]
            /\ np' = [np EXCEPT ![t] = NewPartition(clusterParts[t][1])]
            /\ top' = [top EXCEPT ![t] = NewTopic(t)]
            /\ UNCHANGED histVars
    /\ UNCHANGED <<hashVars, cfgVars, runVars, done, serVars, outVars, stderr>>

\* cmd.client.GetOffset(name, p, sarama.OffsetOldest) succeeds (topic.go:203).
CallOldest(t) ==
    /\ pc[t] = "oldest"
    /\ calls' = [calls EXCEPT ![t] = Append(@, CallOf(t))]
    /\ \E v \in OldestOffsets : Proceed(t, [np[t] EXCEPT !.OldestOffset = v])
    /\ UNCHANGED <<hashVars, cfgVars, runVars, ps, done, serVars, outVars, stderr>>

\* cmd.client.GetOffset(name, p, sarama.OffsetNewest) succeeds (topic.go:207).
CallNewest(t) ==
    /\ pc[t] = "newest"
    /\ calls' = [calls EXCEPT ![t] = Append(@, CallOf(t))]
    /\ \E v \in NewestOffsets : Proceed(t, [np[t] EXCEPT !.NewestOffset = v])
    /\ UNCHANGED <<hashVars, cfgVars, runVars, ps, done, serVars, outVars, stderr>>

\* cmd.client.Leader(name, p) succeeds; np.Leader = led.Addr()
\* (topic.go:211-216).
CallLeader(t) ==
    /\ pc[t] = "leader"
    /\ calls' = [calls EXCEPT ![t] = Append(@, CallOf(t))]
    /\ \E a \in LeaderAddrs : Proceed(t, [np[t] EXCEPT !.Leader = a])
    /\ UNCHANGED <<hashVars, cfgVars, runVars, ps, done, serVars, outVars, stderr>>

\* cmd.client.Replicas(name, p) succeeds (topic.go:219).
CallReplicas(t) ==
    /\ pc[t] = "replicas"
    /\ calls' = [calls EXCEPT ![t] = Append(@, CallOf(t))]
    /\ \E r \in ReplicaLists : Proceed(t, [np[t] EXCEPT !.Replicas = r])
    /\ UNCHANGED <<hashVars, cfgVars, runVars, ps, done, serVars, outVars, stderr>>

\* cmd.client.InSyncReplicas(name, p) succeeds (topic.go:223).
CallISRs(t) ==
    /\ pc[t] = "isrs"
    /\ calls' = [calls EXCEPT ![t] = Append(@, CallOf(t))]
    /\ \E r \in ReplicaLists : Proceed(t, [np[t] EXCEPT !.ISRs = r])
    /\ UNCHANGED <<hashVars, cfgVars, runVars, ps, done, serVars, outVars, stderr>>

\* ReportError without the return of topic.go:176: the worker goes on to
\* submit the record readTopic left behind.
ReportError_Submit(t) ==
    /\ stderr' = Append(stderr, <<"failed to read info for topic", t>>)
    /\ pc' = [pc EXCEPT ![t] = "send"]
    /\ UNCHANGED <<done, serVars, outVars>>

\* ReportError without the diagnostic.
ReportError_Silent(t) ==
    /\ stderr' = stderr
    /\ pc' = [pc EXCEPT ![t] = "wgdone"]
    /\ UNCHANGED <<done, serVars, outVars>>

\* What print does with the error of readTopic (topic.go:174-177): the
\* diagnostic goes to stderr and print returns without a submission.
ReportError(t) ==
    /\ stderr' = Append(stderr, <<"failed to read info for topic", t>>)
    /\ pc' = [pc EXCEPT ![t] = "wgdone"]
    /\ UNCHANGED <<done, serVars, outVars>>

\* CallFail with readTopic returning (top, nil) on a failed call.
CallFail_ReturnNil(t) ==
    /\ \/ pc[t] = "read" /\ partitions
       \/ pc[t] \in {"oldest", "newest", "leader", "replicas", "isrs"}
    /\ calls' = [calls EXCEPT ![t] = Append(@, CallOf(t))]
    /\ ReturnTopic(t, top[t])
    /\ UNCHANGED <<hashVars, cfgVars, runVars, ps, idx, np, done, serVars, outVars, stderr>>

\* Any of the cluster-client calls of readTopic fails: readTopic returns
\* (top, err) (topic.go:197, 204, 208, 213, 220, 224) and print reports it.
CallFail(t) ==
    /\ \/ pc[t] = "read" /\ partitions
       \/ pc[t] \in {"oldest", "newest", "leader", "replicas", "isrs"}
    /\ calls' = [calls EXCEPT ![t] = Append(@, CallOf(t))]
    /\ ReportError(t)
    /\ UNCHANGED <<hashVars, cfgVars, runVars, ps, idx, np, top, histVars>>

\* Ctx with one done channel shared by all submissions.
Ctx_SharedDone(t) == [output |-> top[t], done |-> 1]

\* ----------------------------------------------------------- worker: print
\* The printContext built at topic.go:179.
Ctx(t) == [output |-> top[t], done |-> t]

\* The serializer takes a submission off its input channel.
SerReceive(ctx) ==
    /\ serPc = "recv"
    /\ serPc' = "write"
    /\ cur' = ctx
    /\ UNCHANGED serStarted
    /\ accepted' = Append(accepted, ctx.output.Name)

\* Submit with the worker writing its record to the sink itself instead of
\* handing it to the serializer.
Submit_DirectWrite(t) ==
    /\ pc[t] = "send"
    /\ sink' = Append(sink, Encode(top[t]))
    /\ sinkWriters' = sinkWriters \cup {WorkerOf(t)}
    /\ pc' = [pc EXCEPT ![t] = "wgdone"]
    /\ UNCHANGED <<hashVars, cfgVars, runVars, readVars, done, serVars, inFlight, stderr, histVars>>

\* Submit with a send that does not block: when the serializer is not ready
\* to receive, the worker writes its record to the sink itself.
Submit_Fallback(t) ==
    /\ pc[t] = "send"
    /\ IF serPc = "recv"
       THEN /\ done' = [done EXCEPT ![t] = "open"]
            /\ SerReceive(Ctx(t))
            /\ pc' = [pc EXCEPT ![t] = "await"]
            /\ UNCHANGED outVars
       ELSE /\ sink' = Append(sink, Encode(top[t]))
            /\ sinkWriters' = sinkWriters \cup {WorkerOf(t)}
            /\ pc' = [pc EXCEPT ![t] = "wgdone"]
            /\ UNCHANGED <<done, serVars, inFlight, accepted>>
    /\ UNCHANGED <<hashVars, cfgVars, runVars, readVars, stderr, completed, acceptedBefore>>

\* ctx := printContext{...}; out <- ctx (topic.go:179-180).  out is
\* unbuffered (topic.go:133): the send completes only together with the
\* serializer's receive.
Submit(t) ==
    /\ pc[t] = "send"
    /\ ~outClosed
    /\ done' = [done EXCEPT ![t] = "open"]
    /\ SerReceive(Ctx(t))
    /\ pc' = [pc EXCEPT ![t] = "await"]
    /\ UNCHANGED <<hashVars, cfgVars, runVars, readVars, outVars, stderr, completed, acceptedBefore>>

\* AwaitDone without the receive from ctx.done.
AwaitDone_NoWait(t) ==
    /\ pc[t] = "await"
    /\ pc' = [pc EXCEPT ![t] = "wgdone"]
    /\ UNCHANGED <<hashVars, cfgVars, runVars, readVars, done, serVars, outVars, stderr, histVars>>

\* <-ctx.done (topic.go:181) returns once the serializer has signalled it;
\* print returns.
AwaitDone(t) ==
    /\ pc[t] = "await"
    /\ done[t] = "signalled"
    /\ pc' = [pc EXCEPT ![t] = "wgdone"]
    /\ UNCHANGED <<hashVars, cfgVars, runVars, readVars, done, serVars, outVars, stderr, histVars>>

\* WgDone without wg.Done(): the goroutine ends, the counter stays.
WgDone_Missing(t) ==
    /\ pc[t] = "wgdone"
    /\ pc' = [pc EXCEPT ![t] = "finished"]
    /\ UNCHANGED <<hashVars, cfgVars, runVars, readVars, done, serVars, outVars, stderr,
                   histVars>>

\* wg.Done() (topic.go:162); the goroutine ends.
WgDone(t) ==
    /\ pc[t] = "wgdone"
    /\ wg' = wg - 1
    /\ pc' = [pc EXCEPT ![t] = "finished"]
    /\ UNCHANGED <<hashVars, cfgVars, runPc, topics, next, outClosed, clientClosed, exitStatus,
                   readVars, done, serVars, outVars, stderr, histVars>>

\* ------------------------------------------------------------- serializer
\* The serializer starts writing the record it received: the sink holds a
\* partial record.
SerBeginWrite ==
    /\ serPc = "write"
    /\ inFlight' = inFlight \cup {[by |-> Serializer, rec |-> Encode(cur.output)]}
    /\ serPc' = "writing"
    /\ UNCHANGED <<hashVars, cfgVars, runVars, pc, readVars, done, cur, serStarted, sink, sinkWriters,
                   stderr, histVars>>

\* The write of the record is complete.
SerEndWrite ==
    /\ serPc = "writing"
    /\ sink' = Append(sink, Encode(cur.output))
    /\ sinkWriters' = sinkWriters \cup {Serializer}
    /\ inFlight' = inFlight \ {[by |-> Serializer, rec |-> Encode(cur.output)]}
    /\ serPc' = "ack"
    /\ UNCHANGED <<hashVars, cfgVars, runVars, pc, readVars, done, cur, serStarted, stderr,
                   histVars>>

\* The serializer signals "write complete" on the submission's own
\* acknowledgment channel and waits for the next submission.
SerAck ==
    /\ serPc = "ack"
    /\ done' = [done EXCEPT ![cur.done] = "signalled"]
    /\ serPc' = "recv"
    /\ cur' = <<>>
    /\ UNCHANGED serStarted
    /\ UNCHANGED <<hashVars, cfgVars, runVars, pc, readVars, outVars, stderr, histVars>>

\* ------------------------------------------------------------------- Spec
Worker(t) ==
    \/ ReadBare(t)
    \/ CallPartitions(t)
    \/ CallOldest(t)
    \/ CallNewest(t)
    \/ CallLeader(t)
    \/ CallReplicas(t)
    \/ CallISRs(t)
    \/ CallFail(t)
    \/ Submit(t)
    \/ AwaitDone(t)
    \/ WgDone(t)

Next ==
    \/ ListTopics
    \/ ListTopicsFail
    \/ StartSerializer
    \/ Dispatch
    \/ EndDispatch
    \/ WaitReturn
    \/ \E t \in Names : Worker(t)
    \/ SerBeginWrite
    \/ SerEndWrite
    \/ SerAck

Spec == Init /\ [][Next]_vars

\* The Go scheduler keeps running goroutines that can take a step.
FairSpec == Spec /\ WF_vars(Next)

\* ------------------------------------------------- the hasher on its inputs
\* The pipeline is not in use: no topic, no goroutine, nothing written.
PipelineIdle ==
    /\ partitions = FALSE
    /\ leaders = FALSE
    /\ replicas = FALSE
    /\ filter = {}
    /\ clusterParts = [t \in Names |-> <<>>]
    /\ runPc = "off"
    /\ topics = <<>>
    /\ next = 1
    /\ wg = 0
    /\ outClosed = FALSE
    /\ clientClosed = FALSE
    /\ exitStatus = -1
    /\ pc = [t \in Names |-> "idle"]
    /\ ps = [t \in Names |-> <<>>]
    /\ idx = [t \in Names |-> 0]
    /\ np = [t \in Names |-> NewPartition(0)]
    /\ top = [t \in Names |-> NewTopic(t)]
    /\ calls = [t \in Names |-> <<>>]
    /\ done = [t \in Names |-> "none"]
    /\ serPc = "off"
    /\ cur = <<>>
    /\ serStarted = 0
    /\ sink = <<>>
    /\ sinkWriters = {}
    /\ inFlight = {}
    /\ stderr = <<>>
    /\ completed = <<>>
    /\ acceptedBefore = [t \in Names |-> {}]
    /\ accepted = <<>>

InitHash ==
    /\ PipelineIdle
    /\ hkey \in HashKeys
    /\ hn \in PartitionCounts
    /\ hhc = 0
    /\ habs = 0
    /\ hres = 0
    /\ hpc = "hash"

\* A call of hashCode(key).
CallHashCode ==
    /\ hpc = "hash"
    /\ hhc' = hashCode(hkey)
    /\ hpc' = "abs"
    /\ UNCHANGED <<pipeVars, hkey, hn, habs, hres>>

\* A call of kafkaAbs on the hash of the key.
CallKafkaAbs ==
    /\ hpc = "abs"
    /\ habs' = kafkaAbs(hhc)
    /\ hpc' = "partition"
    /\ UNCHANGED <<pipeVars, hkey, hn, hhc, hres>>

\* A call of hashCodePartition(key, partitions).
CallHashCodePartition ==
    /\ hpc = "partition"
    /\ hres' = hashCodePartition(hkey, hn)
    /\ hpc' = "done"
    /\ UNCHANGED <<pipeVars, hkey, hn, hhc, habs>>

NextHash ==
    \/ CallHashCode
    \/ CallKafkaAbs
    \/ CallHashCodePartition

SpecHash == InitHash /\ [][NextHash]_vars

\* ----------------------------------------------------- derived notions
Range(s) == {s[i] : i \in DOMAIN s}

\* The diagnostic print writes for topic t.
Diag(t) == <<"failed to read info for topic", t>>

\* Positions of the sink holding a record of topic t.
SinkPos(t) == {i \in DOMAIN sink : sink[i].name = t}

\* Topic t's worker has handed a record to the serializer.
Submitted(t) == done[t] # "none"

\* Topic t's retrieval failed and print has reported it.
Failed(t) == Diag(t) \in Range(stderr)

\* Index of x in the duplicate-free sequence s (0 when absent).
Pos(s, x) == IF x \in Range(s) THEN CHOOSE i \in DOMAIN s : s[i] = x ELSE 0

\* ---------------------------------------------------------------- claims
\* C1: writes to the sink are strictly serialized: at most one record is
\* partially written at any time, the one being written is written by the
\* serializer, and no process but the serializer has ever written to the sink.
C1_SerializedWrites ==
    /\ Cardinality(inFlight) <= 1
    /\ \A e \in inFlight : e.by = Serializer
    /\ sinkWriters \subseteq {Serializer}

\* C1 witness: a record is partially written while another worker already
\* holds a finished record and is blocked on its send.
C1_Witness ==
    /\ serPc = "writing"
    /\ inFlight # {}
    /\ \E t \in Names : pc[t] = "send"

\* C2: a worker that submitted a record is past its wait for the
\* acknowledgment only when the serializer has signalled write-complete for
\* that record and the record is in the sink; hence once run's wait has
\* returned every submitted record has been completely written.
C2_DoneAfterWrite ==
    /\ \A t \in Names :
          (Submitted(t) /\ pc[t] \in {"wgdone", "finished"})
             => /\ done[t] = "signalled"
                /\ \E i \in DOMAIN sink : sink[i] = Encode(top[t])
    /\ runPc = "returned" =>
          /\ inFlight = {}
          /\ \A t \in Names : Submitted(t) => SinkPos(t) # {}

\* C2 witness: run has returned after every topic was submitted.
C2_Witness ==
    /\ runPc = "returned"
    /\ Len(sink) >= 2
    /\ \A t \in Names : Submitted(t)

\* C3: when run has returned, every filtered topic whose retrieval succeeded
\* has exactly one record in the sink, namely the encoding of the record its
\* worker built; and no topic ever has two records in the sink.
C3_ExactlyOnce ==
    /\ \A t \in Names : Cardinality(SinkPos(t)) <= 1
    /\ \A i \in DOMAIN sink : sink[i] = Encode(top[sink[i].name])
    /\ runPc = "returned" =>
          \A t \in Range(topics) :
             t \in Range(completed) => Cardinality(SinkPos(t)) = 1

\* C3 witness: run has returned with two records with partitions written.
C3_Witness ==
    /\ runPc = "returned"
    /\ Len(sink) >= 2
    /\ \A i \in DOMAIN sink : "partitions" \in DOMAIN sink[i]

\* C4: a failed retrieval is reported on stderr and never exits the process;
\* the failed topic has no record in the sink or on its way to it; and when
\* run has returned every filtered topic is either written (its retrieval
\* succeeded) or reported (its retrieval failed), never both.
C4_FailureIsolation ==
    /\ \A t \in Names :
          Failed(t) => /\ SinkPos(t) = {}
                       /\ ~Submitted(t)
                       /\ pc[t] \notin {"send", "await"}
                       /\ t \notin Range(completed)
                       /\ exitStatus = -1
    /\ \A t \in Names :
          (pc[t] \in {"wgdone", "finished"} /\ ~Submitted(t)) => Failed(t)
    /\ runPc = "returned" =>
          \A t \in Range(topics) : (SinkPos(t) # {}) # Failed(t)

\* C4 witness: run has returned, one topic failed and its sibling is written.
C4_Witness ==
    /\ runPc = "returned"
    /\ \E t, u \in Names : Failed(t) /\ SinkPos(u) # {} /\ Pos(completed, u) > 0
                           /\ Len(calls[t]) > 1

\* C5: no record of a topic with a failed call is submitted, and a written
\* record never holds a proper prefix of the topic's partitions: with
\* partitions requested it has exactly one entry, in the cluster's order, for
\* every partition id the cluster reported.
C5_Atomicity ==
    /\ \A t \in Names : Failed(t) => ~Submitted(t) /\ SinkPos(t) = {}
    /\ \A i \in DOMAIN sink :
          LET r == sink[i]
              want == IF partitions THEN clusterParts[r.name] ELSE <<>>
              got == IF "partitions" \in DOMAIN r
                     THEN [k \in DOMAIN r.partitions |-> r.partitions[k].id]
                     ELSE <<>>
          IN  got = want

\* C5 witness: a retrieval failed after its first partition was built, and a
\* complete record with all partitions of another topic is in the sink.
C5_Witness ==
    \E t, u \in Names :
       /\ Failed(t) /\ Len(top[t].Partitions) >= 1
       /\ SinkPos(u) # {}
       /\ \E i \in SinkPos(u) : "partitions" \in DOMAIN sink[i]
                                /\ Len(sink[i].partitions) = MaxPartitions

\* C6 as stated: records appear in the sink in the order in which their
\* retrievals completed.
C6_CompletionOrder ==
    \A i, j \in DOMAIN sink :
       i < j => Pos(completed, sink[i].name) < Pos(completed, sink[j].name)

\* C6 amended: output order is the order in which the serializer accepts
\* the submissions, not the order in which the retrievals completed: a
\* record is written only after its own retrieval completed, and every
\* record the serializer had accepted before topic Y's retrieval completed
\* precedes Y's record in the sink.
C6_AcceptOrder ==
    \A j \in DOMAIN sink :
       /\ sink[j].name \in Range(completed)
       /\ \A x \in acceptedBefore[sink[j].name] :
             \E i \in DOMAIN sink : i < j /\ sink[i].name = x

\* C6 witness: two records are written, the first of them accepted before
\* the retrieval of the second completed.
C6_Witness ==
    /\ Len(sink) >= 2
    /\ sink[1].name \in acceptedBefore[sink[2].name]

\* C7 as stated: once run's wait has returned the serializer's input channel
\* is closed.
C7_ClosedAfterWait == runPc = "returned" => outClosed

\* C7 amended: run never closes the channel out and gives the serializer no
\* final signal: when run's wait has returned the channel is still open and
\* the serializer, having written and acknowledged every submitted record,
\* is waiting on it for a further submission.
C7_NeverClosed ==
    /\ ~outClosed
    /\ runPc = "returned" =>
          /\ serPc = "recv"
          /\ inFlight = {}
          /\ \A t \in Names : Submitted(t) => done[t] = "signalled" /\ SinkPos(t) # {}

\* C7 witness: run has returned after a record was written, and the
\* serializer waits on the open channel.
C7_Witness ==
    /\ runPc = "returned"
    /\ clientClosed
    /\ Len(sink) >= 1
    /\ serPc = "recv"

\* What run hands back to its caller: run has no result (topic.go:129).
runResult == <<>>

C9_StatusReflectsFailure ==
    (runPc = "returned" /\ \E t \in Names : Failed(t)) => exitStatus # -1

\* C10: the record written for a topic with partitions requested for which
\* the cluster reports no partition differs from the record of the same
\* topic with partitions not requested; and with partitions not requested a
\* record has no partitions field.
C10_BareDistinguishable ==
    \A i \in DOMAIN sink :
       /\ ~partitions => "partitions" \notin DOMAIN sink[i]
       /\ (partitions /\ clusterParts[sink[i].name] = <<>>)
             => sink[i] # Encode(NewTopic(sink[i].name))

\* ------------------------------------------------- claims on the hasher
\* The UTF-16 code units of a sequence of code points (Unicode, D91): one
\* unit for a code point of the BMP, high then low surrogate otherwise.
RECURSIVE UTF16Units(_)
UTF16Units(s) ==
    IF s = <<>> THEN <<>>
    ELSE LET c == Head(s) IN
         (IF c < 65536 THEN <<c>>
          ELSE <<55296 + ((c - 65536) \div 1024), 56320 + ((c - 65536) % 1024)>>)
         \o UTF16Units(Tail(s))

\* The reference fold h := (h*31 + u) mod 2^32 over code units, kept as the
\* unsigned 16-bit halves <<high, low>> of h, starting from 0.
RECURSIVE RefFold(_, _)
RefFold(us, h) ==
    IF us = <<>> THEN h
    ELSE LET low == h[2] * 31 + Head(us)
             high == h[1] * 31 + (low \div 65536)
         IN  RefFold(Tail(us), <<high % 65536, low % 65536>>)

\* The reference hash of a key as a signed 32-bit value.
RefHash(s) ==
    LET h == RefFold(UTF16Units(s), <<0, 0>>) IN
    IF h[1] >= 32768 THEN (h[1] - 65536) * 65536 + h[2] ELSE h[1] * 65536 + h[2]

\* C11: for every key and every partition count n > 0 the partition
\* hashCodePartition returns is at least 0 and less than n.
C11_InRange ==
    (hpc = "done" /\ hn > 0) => (0 <= hres /\ hres < hn)

\* C11 witness: a key whose hash wrapped around to a negative value got a
\* partition other than 0.
C11_Witness ==
    /\ hpc = "done"
    /\ hn > 1
    /\ hhc < 0
    /\ hhc # MinInt32
    /\ hres > 0

\* C12: hashCodePartition returns -1 exactly when the partition count is not
\* positive.
C12_Sentinel ==
    hpc = "done" => ((hres = -1) <=> (hn <= 0))

\* C12 witness: the hasher has answered -1 for a non-empty key under a
\* negative partition count.
C12_Witness ==
    /\ hpc = "done"
    /\ hn < -1
    /\ hkey # <<>>
    /\ hres = -1

\* C13: kafkaAbs(i) is 0 for the minimum int32, -i for every other negative
\* i and i otherwise, hence never negative; and a key whose hash is the
\* minimum int32 gets partition 0 under every partition count n > 0.
C13_KafkaAbs ==
    /\ hpc \in {"partition", "done"} =>
          /\ habs >= 0
          /\ habs = (IF hhc = MinInt32 THEN 0 ELSE IF hhc < 0 THEN 0 - hhc ELSE hhc)
    /\ (hpc = "done" /\ hhc = MinInt32 /\ hn > 0) => hres = 0

\* C13 witness: the key with the minimum hash was given partition 0 of more
\* than two partitions.
C13_Witness ==
    /\ hpc = "done"
    /\ hkey = MinHashKey
    /\ hhc = MinInt32
    /\ habs = 0
    /\ hn > 2
    /\ hres = 0

\* C14: hashCode(s) is the reference fold over the UTF-16 code units of s;
\* the empty string hashes to 0 and "a" to 97.
C14_Utf16Fold ==
    hpc \in {"abs", "partition", "done"} =>
       /\ hhc = RefHash(hkey)
       /\ hkey = <<>> => hhc = 0
       /\ hkey = <<97>> => hhc = 97

\* C14 witness: the hash of a key mixing a BMP rune with runes outside the
\* BMP, which wrapped around.
C14_Witness ==
    /\ hpc = "done"
    /\ Len(hkey) = 3
    /\ \E i \in DOMAIN hkey : hkey[i] < 65536
    /\ \E i \in DOMAIN hkey : hkey[i] >= 65536
    /\ hhc < 0

\* ------------------------------------------- further claims on the pipeline
\* The number of calls readTopic makes for one partition (topic.go:203-226).
CallsPerPartition ==
    2 + (IF leaders THEN 1 ELSE 0) + (IF replicas THEN 2 ELSE 0)

\* The kind of the o-th call (from 0) readTopic makes for one partition, in
\* the order of topic.go:203-226.
PartitionCallKind(o) ==
    IF o = 0 THEN "GetOffsetOldest"
    ELSE IF o = 1 THEN "GetOffsetNewest"
    ELSE IF leaders /\ o = 2 THEN "Leader"
    ELSE IF o = CallsPerPartition - 2 THEN "Replicas"
    ELSE "InSyncReplicas"

\* The number of calls of a retrieval of topic t in which every call
\* succeeds.
ExpectedLen(t) ==
    IF partitions THEN 1 + Len(clusterParts[t]) * CallsPerPartition ELSE 0

\* The k-th call of such a retrieval: the listing, then the calls of the
\* first partition the cluster reported, then those of the second, ...
ExpectedCall(t, k) ==
    IF k = 1 THEN <<"Partitions", -1>>
    ELSE <<PartitionCallKind((k - 2) % CallsPerPartition),
           clusterParts[t][((k - 2) \div CallsPerPartition) + 1]>>

\* Sequence a is a prefix of sequence b.
IsPrefix(a, b) == Len(a) <= Len(b) /\ \A i \in DOMAIN a : a[i] = b[i]

\* The partition ids of the record top, in its order.
IdsOf(topv) == [k \in DOMAIN topv.Partitions |-> topv.Partitions[k].Id]

\* C15: the calls of a retrieval are a prefix of the fixed sequence: the
\* partition listing, then for each partition in the cluster's order oldest
\* offset, newest offset, leader (if requested), replicas and in-sync
\* replicas (if requested); a retrieval that succeeded made all of them, and
\* the partitions of a record are in the cluster's order.
C15_CallOrder ==
    \A t \in Names :
       /\ Len(calls[t]) <= ExpectedLen(t)
       /\ \A k \in DOMAIN calls[t] : calls[t][k] = ExpectedCall(t, k)
       /\ IsPrefix(IdsOf(top[t]), clusterParts[t])
       /\ t \in Range(completed) =>
             /\ Len(calls[t]) = ExpectedLen(t)
             /\ partitions => IdsOf(top[t]) = clusterParts[t]

\* C15 witness: a retrieval of two partitions with leaders and replicas
\* requested has completed after eleven calls.
C15_Witness ==
    \E t \in Names :
       /\ t \in Range(completed)
       /\ leaders /\ replicas
       /\ Len(clusterParts[t]) >= 2
       /\ Len(calls[t]) = 1 + 5 * Len(clusterParts[t])

\* The listing of the topics failed.
ListFailed == <<"failed to read topics">> \in Range(stderr)

\* C16: when the listing of the topics has failed, the process has exited
\* with status 1, no serializer and no worker was started, no metadata call
\* was made and nothing was written to the sink.
C16_ListFailureStops ==
    ListFailed =>
       /\ runPc = "exited"
       /\ exitStatus = 1
       /\ serPc = "off" /\ serStarted = 0
       /\ \A t \in Names : pc[t] = "idle" /\ calls[t] = <<>>
       /\ wg = 0
       /\ sink = <<>> /\ inFlight = {}
       /\ ~clientClosed

\* C16 witness: the listing failed in a run whose filter matches every
\* topic and which asks for partitions.
C16_Witness ==
    /\ ListFailed
    /\ runPc = "exited"
    /\ filter = Names
    /\ partitions

\* The kinds of the calls topic t's worker has made.
CallKinds(t) == {calls[t][k][1] : k \in DOMAIN calls[t]}

\* C17: without cmd.partitions a worker makes no call and builds the bare
\* record; Leader is called and a leader set only with cmd.leaders; Replicas
\* and InSyncReplicas are called and their fields set only with cmd.replicas,
\* in the record built as well as in the record written; a retrieval of a
\* topic with partitions that succeeded made these calls exactly when the
\* flag asks for them.
C17_FlagsGate ==
    /\ \A t \in Names :
          LET kinds == CallKinds(t) IN
          /\ ~partitions => (calls[t] = <<>> /\ top[t] = NewTopic(t))
          /\ "Leader" \in kinds => (partitions /\ leaders)
          /\ (kinds \cap {"Replicas", "InSyncReplicas"} # {}) => (partitions /\ replicas)
          /\ \A k \in DOMAIN top[t].Partitions :
                LET q == top[t].Partitions[k] IN
                /\ q.Leader # "" => leaders
                /\ q.Replicas # <<>> => replicas
                /\ q.ISRs # <<>> => replicas
          /\ (t \in Range(completed) /\ partitions /\ clusterParts[t] # <<>>) =>
                /\ "Leader" \in kinds <=> leaders
                /\ "Replicas" \in kinds <=> replicas
                /\ "InSyncReplicas" \in kinds <=> replicas
    /\ \A i \in DOMAIN sink :
          /\ ~partitions => sink[i] = [name |-> sink[i].name]
          /\ "partitions" \in DOMAIN sink[i] =>
                \A k \in DOMAIN sink[i].partitions :
                   LET q == sink[i].partitions[k] IN
                   /\ "leader" \in DOMAIN q => leaders
                   /\ "replicas" \in DOMAIN q => replicas
                   /\ "isrs" \in DOMAIN q => replicas

\* C17 witness: a record whose partitions hold replicas but no leader was
\* written after a retrieval that called Replicas and not Leader.
C17_Witness ==
    /\ partitions /\ ~leaders /\ replicas
    /\ \E i \in DOMAIN sink :
          /\ "partitions" \in DOMAIN sink[i]
          /\ "replicas" \in DOMAIN sink[i].partitions[1]
          /\ "leader" \notin DOMAIN sink[i].partitions[1]
          /\ "Replicas" \in CallKinds(sink[i].name)

\* C18: run starts exactly one serializer, and starts it before the first
\* worker: no serializer exists before the dispatch loop, exactly one from
\* then on, and no worker exists, let alone sends, without it.
C18_OneSerializerFirst ==
    /\ serStarted <= 1
    /\ (serStarted = 0) <=> (serPc = "off")
    /\ runPc \in {"dispatch", "wait", "returned"} => serStarted = 1
    /\ \A t \in Names : pc[t] # "idle" => (serStarted = 1 /\ serPc # "off")

\* C18 witness: a worker is blocked on its send while the one serializer is
\* busy with another record.
C18_Witness ==
    /\ serStarted = 1
    /\ serPc = "writing"
    /\ \E t \in Names : pc[t] = "send"

\* run has ended: its wait returned with every worker finished, or the
\* process exited.
RunEnded ==
    \/ runPc = "exited"
    \/ /\ runPc = "returned"
       /\ wg = 0
       /\ \A t \in Range(topics) : pc[t] = "finished"

\* C19: under fair scheduling run ends: every worker finishes and the wait
\* returns (or the listing failed), whatever the topics and the failures.
C19_Terminates == <>RunEnded

\* C19 witness: run has returned after one worker failed and another got
\* its record written, all workers finished.
C19_Witness ==
    /\ runPc = "returned"
    /\ wg = 0
    /\ \A t \in Range(topics) : pc[t] = "finished"
    /\ Len(stderr) >= 1
    /\ Len(sink) >= 1

\* C20: every submission carries the done channel of its own worker, which
\* is created with the submission and has not been signalled when the
\* serializer signals it; a worker's done channel is signalled, and the
\* worker past its wait, only when its own record is in the sink.
C20_OwnAck ==
    /\ serPc \in {"write", "writing", "ack"} =>
          /\ cur.done = cur.output.Name
          /\ done[cur.done] = "open"
          /\ pc[cur.done] = "await"
    /\ \A t \in Names :
          /\ pc[t] \in {"idle", "read", "oldest", "newest", "leader", "replicas",
                        "isrs", "send"} => done[t] = "none"
          /\ pc[t] = "await" => done[t] # "none"
          /\ done[t] = "signalled" =>
                \E i \in SinkPos(t) : sink[i] = Encode(top[t])
          /\ (Submitted(t) /\ pc[t] \in {"wgdone", "finished"}) => done[t] = "signalled"

\* C20 witness: one worker waits for its acknowledgment while the record of
\* another worker has been written and acknowledged.
C20_Witness ==
    \E t, u \in Names :
       /\ t # u
       /\ pc[t] = "await" /\ done[t] = "open"
       /\ done[u] = "signalled"
       /\ SinkPos(u) # {}

=============================================================================
